---------------------------- MODULE Spec2Model ----------------------------
(***************************************************************************)
(* NASA NEO collector: the command-line pipeline of neo.py (check_args,    *)
(* check_running, empty_table, set_running, the window loop of             *)
(* collect_and_store with make_request, get_values_list, insert_into_db)   *)
(* and the POST /collect handler of app.py, run against one MySQL store.   *)
(*                                                                         *)
(* Strings are sequences of one-character strings, so that the regular     *)
(* expression, fromisoformat and strftime are computed character by        *)
(* character.  Dates are proleptic Gregorian ordinals, as in datetime.     *)
(***************************************************************************)
EXTENDS Integers, Sequences, FiniteSets, TLC

(***************************************************************************)
(* Bounds of the model.                                                    *)
(***************************************************************************)
\* neo.py processes (command line or spawned by the service) in one behaviour
NumProcs == 2
\* POST /collect requests in one behaviour
NumRequests == 2
\* injected faults (store errors, transport errors, malformed entries)
MaxFaults == 1
\* latest end date offered, in days after the fixed start date
MaxEndOffset == 9
\* the request counter and the request history stop growing here
MaxReq == 2
\* latest instant of a set_running called on its own, in seconds
MaxTime == 2
\* latest start of a payload handed to get_values_list on its own, in days
\* after the fixed start date
MaxStartOffset == 3

(***************************************************************************)
(* Program constants.                                                      *)
(***************************************************************************)
\* timedelta(days = 8): the window increment
WindowDays == 8
\* time.sleep(5)
SleepSeconds == 5
\* the feed answers a request without end_date with 8 consecutive days
FeedDays == 8

Procs == 1..NumProcs
Requests == 1..NumRequests

None == <<"None">>

(***************************************************************************)
(* Strings and dates.                                                      *)
(***************************************************************************)
Digits == <<"0", "1", "2", "3", "4", "5", "6", "7", "8", "9">>

DigitSet == {Digits[i] : i \in 1..10}

DigitOf == [c \in DigitSet |-> (CHOOSE i \in 1..10 : Digits[i] = c) - 1]

IsDigit(c) == c \in DigitSet

DigitVal(c) == DigitOf[c]

\* int() of the digits s[1..i]
RECURSIVE ParseFrom(_, _)
ParseFrom(s, i) ==
    IF i = 0 THEN 0 ELSE 10 * ParseFrom(s, i - 1) + DigitVal(s[i])

\* int() of a string of digits
ParseInt(s) == ParseFrom(s, Len(s))

\* "%0<w>d" % n
ZeroPad(n, w) == [i \in 1..w |-> Digits[((n \div (10 ^ (w - i))) % 10) + 1]]

IsLeap(y) == (y % 4 = 0) /\ ((y % 100 # 0) \/ (y % 400 = 0))

DaysInMonth(y, m) ==
    IF m = 2 THEN (IF IsLeap(y) THEN 29 ELSE 28)
    ELSE IF m \in {4, 6, 9, 11} THEN 30 ELSE 31

\* days of a common year before the first of each month
DaysBeforeMonthTable == <<0, 31, 59, 90, 120, 151, 181, 212, 243, 273, 304, 334>>

DaysBeforeMonth(y, m) ==
    DaysBeforeMonthTable[m] + (IF m > 2 /\ IsLeap(y) THEN 1 ELSE 0)

DaysBeforeYear(y) ==
    (y - 1) * 365 + ((y - 1) \div 4) - ((y - 1) \div 100) + ((y - 1) \div 400)

\* datetime.toordinal
Ymd2Ord(y, m, d) == DaysBeforeYear(y) + DaysBeforeMonth(y, m) + d

\* datetime.fromordinal: the year, month and day whose ordinal is n
Ord2Ymd(n) ==
    CHOOSE t \in [year : (n \div 366)..((n \div 365) + 1), month : 1..12, day : 1..31] :
        /\ t.year >= 1
        /\ t.day <= DaysInMonth(t.year, t.month)
        /\ Ymd2Ord(t.year, t.month, t.day) = n

\* re.match("\d{4}-\d{2}-\d{2}", date): the pattern is matched at the start of
\* the string and nothing anchors its end
check_date_format(date) ==
    /\ Len(date) >= 10
    /\ \A i \in {1, 2, 3, 4, 6, 7, 9, 10} : IsDigit(date[i])
    /\ date[5] = "-"
    /\ date[8] = "-"

\* the date of year y, month m, day d, or a ValueError
MakeDate(y, m, d) ==
    IF y >= 1 /\ m \in 1..12 /\ d >= 1 /\ d <= DaysInMonth(y, m)
    THEN [ok |-> TRUE, ord |-> Ymd2Ord(y, m, d)]
    ELSE [ok |-> FALSE, ord |-> 0]

\* datetime.datetime.fromisoformat on a date-only string: the ordinal of the
\* date, or a ValueError when the text is no calendar date
fromisoformat(s) ==
    IF ~(Len(s) = 10 /\ check_date_format(s))
    THEN [ok |-> FALSE, ord |-> 0]
    ELSE CHOOSE r \in {MakeDate(y, m, d) : y \in {ParseInt(SubSeq(s, 1, 4))},
                                          m \in {ParseInt(SubSeq(s, 6, 7))},
                                          d \in {ParseInt(SubSeq(s, 9, 10))}} : TRUE

\* strftime("%Y-%m-%d")
strftime(n) ==
    CHOOSE r \in {ZeroPad(t.year, 4) \o <<"-">> \o ZeroPad(t.month, 2) \o <<"-">>
                      \o ZeroPad(t.day, 2) : t \in {Ord2Ymd(n)}} : TRUE

\* start_date = "1982-12-10"
start_date == <<"1", "9", "8", "2", "-", "1", "2", "-", "1", "0">>

StartOrd == fromisoformat(start_date).ord


\* the end dates a caller supplies, in days after the start date: the
\* single-day range and a range that needs a second window
EndOffsets == {0, MaxEndOffset}

\* the end date of the single-day range
SingleDay == strftime(StartOrd)

\* a value that fails the format check
BadFormat == <<"8", "2", "-", "1", "2", "-", "1", "0">>

\* a value that passes the format check and is no calendar date
BadCalendar == <<"1", "9", "8", "2", "-", "1", "2", "-", "3", "2">>

\* values of the end_date form field of POST /collect
FormValues == {SingleDay, BadFormat}

\* values of args.end_date when the service runs too: None when -end_date is
\* not given
ArgValues == {SingleDay, BadCalendar, None}

\* values of args.end_date for runs taken one at a time
RunArgValues ==
    {strftime(StartOrd + k) : k \in EndOffsets} \cup {BadFormat, BadCalendar, None}

(***************************************************************************)
(* The remote feed.                                                        *)
(***************************************************************************)
\* the identifier of the i-th object of a day
NeoId(ord, i) == ZeroPad(ord, 6) \o ZeroPad(i, 1)

\* the objects the feed lists under one date: two on every fourth day, else one
FeedEntries(ord) ==
    [i \in 1..(IF ord % 4 = 0 THEN 2 ELSE 1) |->
        [neo_reference_id |-> NeoId(ord, i), complete |-> TRUE]]

\* the body of a 200 answer for ?start_date=<date>&detailed=false: FeedDays
\* consecutive dates from the start date.  defect = 0: every entry has every
\* field; defect = k: the first entry under the k-th date lacks a field.
FeedBody(s, defect) ==
    [k \in 1..FeedDays |->
        [date |-> strftime(s + k - 1),
         neos |-> [i \in 1..Len(FeedEntries(s + k - 1)) |->
                     [FeedEntries(s + k - 1)[i] EXCEPT
                         !.complete = ~(defect = k /\ i = 1)]]]]

\* the window start dates a run can reach, as offsets from the start date
WindowOffsets == {k * WindowDays : k \in 0..((MaxEndOffset \div WindowDays) + 1)}

\* the bodies of the feed, tabulated once
FeedTable ==
    [o \in WindowOffsets |-> [defect \in {0, 1, FeedDays} |-> FeedBody(StartOrd + o, defect)]]

FeedPayload(date, defect) == FeedTable[fromisoformat(date).ord - StartOrd][defect]

(***************************************************************************)
(* Pure functions of neo.py and app.py.                                    *)
(***************************************************************************)
\* s[-4:]
Last4(s) == IF Len(s) <= 4 THEN s ELSE SubSeq(s, Len(s) - 3, Len(s))

RECURSIVE Flatten(_)
Flatten(ss) == IF ss = <<>> THEN <<>> ELSE Head(ss) \o Flatten(Tail(ss))

\* a faulty variant of DateRows that also skips the date equal to end_date
DateRows_exclusive(d, b) ==
    IF fromisoformat(d.date).ord >= b THEN [bad |-> FALSE, values |-> <<>>]
    ELSE [bad |-> \E i \in 1..Len(d.neos) : ~d.neos[i].complete,
          values |-> [i \in 1..Len(d.neos) |->
                        [neo_reference_id |-> Last4(d.neos[i].neo_reference_id),
                         date_key |-> d.date]]]

\* get_values_list, the body of "for key in data": the dates after end_date
\* (ordinal b) are skipped; bad says that an entry of a date that is not
\* skipped lacks a field
DateRows(d, b) ==
    IF fromisoformat(d.date).ord > b THEN [bad |-> FALSE, values |-> <<>>]
    ELSE [bad |-> \E i \in 1..Len(d.neos) : ~d.neos[i].complete,
          values |-> [i \in 1..Len(d.neos) |->
                        [neo_reference_id |-> Last4(d.neos[i].neo_reference_id),
                         date_key |-> d.date]]]

\* get_values_list, the list built from the rows of each date: an entry that
\* lacks a field raises KeyError out of the function
Collected(rows) ==
    IF \E k \in DOMAIN rows : rows[k].bad
    THEN [raised |-> "KeyError", values |-> <<>>]
    ELSE [raised |-> "none", values |-> Flatten([k \in DOMAIN rows |-> rows[k].values])]

\* get_values_list(data, end_date): data is the near_earth_objects mapping in
\* its own order.  (Intermediate values are bound through singleton sets, so
\* that each is computed once.)
get_values_list(data, bound) ==
    CHOOSE r \in
        {Collected(rows) :
            rows \in {[k \in 1..Len(data) |-> DateRows(data[k], b)] :
                         b \in {fromisoformat(bound).ord}}} : TRUE

(***************************************************************************)
(* Faulty variants of the lock check, against which the lock properties    *)
(* are tested: each one must break the property that depends on it.        *)
(***************************************************************************)
\* a check_running that reports the load as not running whatever the row says
check_running_blind(row, outcome) ==
    IF outcome = "connect_error" THEN [raised |-> "DatabaseError"]
    ELSE IF outcome = "exec_error"
    THEN [raised |-> "AttributeError"]
    ELSE [raised |-> "none", running |-> FALSE,
          start_dt |-> row.start_dt, end_dt |-> row.end_dt]

\* the same fault in the check_running of app.py
app_check_running_blind(row, outcome) ==
    IF outcome = "connect_error" THEN [raised |-> "DatabaseError"]
    ELSE IF outcome = "exec_error"
    THEN [raised |-> "AttributeError"]
    ELSE [raised |-> "none", running |-> FALSE,
          start_dt |-> row.start_dt, end_dt |-> row.end_dt]

\* a check_running that answers "not running" when its query fails
check_running_defaulting(row, outcome) ==
    IF outcome = "connect_error" THEN [raised |-> "DatabaseError"]
    ELSE [raised |-> "none", running |-> (outcome = "ok" /\ row.running = 1),
          start_dt |-> row.start_dt, end_dt |-> row.end_dt]

\* a main that goes on whatever check_running_res["running"] is
already_running_ignored(r) == FALSE

\* a collect that answers 200 whatever check_running() reports
collect_status_always_200(r) ==
    IF r.raised # "none" THEN 500 ELSE 200

\* check_running(db) of neo.py on the neo_load row.  A failed connect raises;
\* a failed query is logged and leaves start_dt = None, whose strftime raises.
\* start_dt and end_dt of the result stand for the formatted instants.
check_running(row, outcome) ==
    IF outcome = "connect_error" THEN [raised |-> "DatabaseError"]
    ELSE IF outcome = "exec_error"
    THEN [raised |-> "AttributeError"]
    ELSE [raised |-> "none", running |-> (row.running = 1),
          start_dt |-> row.start_dt, end_dt |-> row.end_dt]

\* check_running() of app.py: the same code over its own connection
app_check_running(row, outcome) ==
    IF outcome = "connect_error" THEN [raised |-> "DatabaseError"]
    ELSE IF outcome = "exec_error"
    THEN [raised |-> "AttributeError"]
    ELSE [raised |-> "none", running |-> (row.running = 1),
          start_dt |-> row.start_dt, end_dt |-> row.end_dt]

\* set_running(db, running_bool) at instant t: the UPDATE of the neo_load row.
\* A failed UPDATE is logged and the row stays as it was.
set_running(row, running_bool, t, outcome) ==
    IF outcome # "ok" THEN row
    ELSE IF running_bool THEN [row EXCEPT !.running = 1, !.start_dt = t]
    ELSE [row EXCEPT !.running = 0, !.end_dt = t]

\* what requests.get can come back with for a window start date: a 200 with
\* the feed's body, another status with a JSON error body, or (as a fault) a
\* transport error, a body that is no JSON, a 200 whose first or last date
\* holds an entry without one of the fields
FeedReplies(date, faulty) ==
    {[kind |-> "json", status_code |-> 200, body |-> FeedPayload(date, 0), fault |-> FALSE],
     [kind |-> "json", status_code |-> 429, body |-> <<>>, fault |-> FALSE]}
    \cup (IF faulty
          THEN {[kind |-> "transport", status_code |-> 0, body |-> <<>>, fault |-> TRUE],
                [kind |-> "not_json", status_code |-> 200, body |-> <<>>, fault |-> TRUE]}
               \cup {[kind |-> "json", status_code |-> 200,
                      body |-> FeedPayload(date, k), fault |-> TRUE] : k \in {1, FeedDays}}
          ELSE {})

\* make_request(url): requests.get and res.json() are outside any try block
make_request(reply) ==
    IF reply.kind = "transport" THEN [raised |-> "ConnectionError"]
    ELSE IF reply.kind = "not_json" THEN [raised |-> "JSONDecodeError"]
    ELSE [raised |-> "none", good |-> (reply.status_code = 200),
          response |-> reply.body]

\* a faulty variant of next_window that steps over every second window
next_window_skipping(current) ==
    [n \in Nat |-> strftime(n)][fromisoformat(current).ord + 2 * WindowDays]

\* current_date + timedelta(days = 8), formatted again
next_window(current) ==
    [n \in Nat |-> strftime(n)][fromisoformat(current).ord + WindowDays]

(***************************************************************************)
(* State.                                                                  *)
(***************************************************************************)
VARIABLES
    neo_load,           \* the singleton row: running (0/1), start_dt, end_dt
    neo_exists,         \* whether table neo exists
    neo,                \* the rows of table neo, in insertion order
    now,                \* the clock, in seconds
    faults,             \* faults injected so far
    pc,                 \* where each neo.py process is
    end_date,           \* args.end_date of each process
    check_running_res,  \* main: check_running_res
    current_date,       \* collect_and_store: current_date
    req_counter,        \* collect_and_store: req_counter
    values_list,        \* collect_and_store: values_list
    exc,                \* the exception that ended the process and the call it left
    exit_code,          \* the exit status of a process that ended, -1 before
    origin,             \* 0: started from the command line; h: spawned by request h
    did,                \* history: the operations each process has called
                        \* ("sleep": it has slept since its last request)
    failed,             \* history: the failures each process has met
    requested,          \* history: the window start dates each process requested
    status,             \* the HTTP status each POST /collect got, 0 before it is served
    h_res,              \* collect: check_running_res of each request
    call,               \* a function called on its own: its name and arguments
    result              \* what that call returned

store == <<neo_load, neo_exists, neo>>
locals == <<end_date, check_running_res, current_date, req_counter, values_list>>
hist == <<did, failed, requested>>
service == <<status, h_res>>
pure == <<call, result>>
vars == <<neo_load, neo_exists, neo, now, faults, pc, end_date, check_running_res,
          current_date, req_counter, values_list, exc, exit_code, origin, did,
          failed, requested, status, h_res, call, result>>

\* no function is called on its own
NoCall == [fn |-> "none"]

Finished == {"exited", "rejected", "crashed", "done"}

\* the store and the processes before any run
Idle ==
    /\ neo_load = [running |-> 0, start_dt |-> 0, end_dt |-> 0]
    /\ neo_exists = TRUE
    /\ neo = <<>>
    /\ now = 0
    /\ faults = 0
    /\ pc = [p \in Procs |-> "idle"]
    /\ end_date = [p \in Procs |-> None]
    /\ check_running_res = [p \in Procs |-> [raised |-> "unset"]]
    /\ current_date = [p \in Procs |-> None]
    /\ req_counter = [p \in Procs |-> 0]
    /\ values_list = [p \in Procs |-> <<>>]
    /\ exc = [p \in Procs |-> [at |-> "none", type |-> "none"]]
    /\ exit_code = [p \in Procs |-> 0 - 1]
    /\ origin = [p \in Procs |-> 0]
    /\ did = [p \in Procs |-> {}]
    /\ failed = [p \in Procs |-> {}]
    /\ requested = [p \in Procs |-> <<>>]
    /\ status = [h \in Requests |-> 0]
    /\ h_res = [h \in Requests |-> [raised |-> "unset"]]

Init ==
    /\ Idle
    /\ call = NoCall
    /\ result = NoCall

\* what a store call can do: succeed, fail inside the try block (the statement
\* fails and the error is logged), or fail at mysql.connector.connect, which
\* is outside the try block
StoreOutcomes ==
    IF faults < MaxFaults THEN {"ok", "exec_error", "connect_error"} ELSE {"ok"}

Fault(outcome) == IF outcome = "ok" THEN faults ELSE faults + 1

\* process slots are handed out in order
HasFreeProc == \E p \in Procs : pc[p] = "idle"
FreeProc == CHOOSE p \in Procs : pc[p] = "idle" /\ \A q \in Procs : q < p => pc[q] # "idle"

\* an exception of type e that leaves the call named at is caught nowhere: it
\* ends the process with a traceback and status 1
Raise(p, at, e) ==
    /\ pc' = [pc EXCEPT ![p] = "crashed"]
    /\ exc' = [exc EXCEPT ![p] = [at |-> at, type |-> e]]
    /\ exit_code' = [exit_code EXCEPT ![p] = 1]

\* sys.exit() without an argument: status 0
SysExit(p, where) ==
    /\ pc' = [pc EXCEPT ![p] = where]
    /\ exit_code' = [exit_code EXCEPT ![p] = 0]
    /\ exc' = exc

Goto(p, where) ==
    /\ pc' = [pc EXCEPT ![p] = where]
    /\ UNCHANGED <<exc, exit_code>>

\* req_counter += 1, exact below MaxReq; from there the counter only says
\* "MaxReq or more" and keeps its parity
Bump(n) == IF n <= MaxReq THEN n + 1 ELSE MaxReq

\* the request history keeps the first MaxReq requests
Record(h, x) == IF Len(h) < MaxReq THEN Append(h, x) ELSE h

(***************************************************************************)
(* neo.py: main and collect_and_store, one action per store or network     *)
(* call together with the local code that follows it.                      *)
(***************************************************************************)
\* python neo.py [-end_date <arg>] typed at the command line
CliStart(arg) ==
    /\ HasFreeProc
    /\ LET p == FreeProc IN
        /\ Goto(p, "main")
        /\ end_date' = [end_date EXCEPT ![p] = arg]
        /\ origin' = [origin EXCEPT ![p] = 0]
    /\ UNCHANGED <<pure, store, now, faults, check_running_res, current_date,
                   req_counter, values_list, hist, service>>

\* check_args: whether args.end_date is given and has the format
check_args(arg) == arg # None /\ check_date_format(arg)

\* the while condition of collect_and_store: "request" when the body runs,
\* "end" when the loop is over, "ValueError" when a date does not parse
while_test(current, bound) ==
    CHOOSE t \in {IF ~c.ok \/ ~e.ok THEN "ValueError"
                  ELSE IF c.ord <= e.ord THEN "request" ELSE "end" :
                  c \in {fromisoformat(current)}, e \in {fromisoformat(bound)}} : TRUE

\* control returns to the head of the loop with current_date = current
Loop(p, current) ==
    \E t \in {while_test(current, end_date[p])} :
        IF t = "ValueError" THEN Raise(p, "while", t) ELSE Goto(p, t)

\* main: if check_running_res["running"]
already_running(r) == r.running

\* main up to the call of collect_and_store: check_args (a missing or
\* ill-formed value is logged and the script leaves through sys.exit()),
\* then check_running(db) and the exit when the load is already running
Main(p) ==
    /\ pc[p] = "main"
    /\ IF ~check_args(end_date[p])
       THEN /\ SysExit(p, "exited")
            /\ UNCHANGED <<faults, check_running_res>>
       ELSE \E outcome \in StoreOutcomes :
            \E r \in {check_running(neo_load, outcome)} :
            /\ faults' = Fault(outcome)
            /\ check_running_res' = [check_running_res EXCEPT ![p] = r]
            /\ IF r.raised # "none" THEN Raise(p, "check_running", r.raised)
               ELSE IF already_running(r) THEN SysExit(p, "rejected")
               ELSE Goto(p, "empty_table")
    /\ UNCHANGED <<pure, store, now, end_date, current_date, req_counter, values_list,
                   origin, hist, service>>

\* what empty_table can do: both statements succeed; DROP fails; DROP succeeds
\* and CREATE fails; the connect fails
ResetOutcomes ==
    IF faults < MaxFaults THEN {"ok", "drop_error", "create_error", "connect_error"}
    ELSE {"ok"}

\* empty_table(db): DROP TABLE IF EXISTS neo, CREATE TABLE IF NOT EXISTS neo;
\* an error of either statement is logged inside empty_table
empty_table(p) ==
    /\ pc[p] = "empty_table"
    /\ \E outcome \in ResetOutcomes :
        /\ faults' = Fault(outcome)
        /\ did' = [did EXCEPT ![p] = @ \cup {"reset"}]
        /\ failed' = IF outcome = "ok" THEN failed
                     ELSE [failed EXCEPT ![p] = @ \cup {"reset"}]
        /\ neo_exists' = IF outcome = "create_error" THEN FALSE
                         ELSE IF outcome = "ok" THEN TRUE ELSE neo_exists
        /\ neo' = IF outcome \in {"ok", "create_error"} THEN <<>> ELSE neo
        /\ IF outcome = "connect_error" THEN Raise(p, "empty_table", "DatabaseError")
           ELSE Goto(p, "set_running")
    /\ UNCHANGED <<pure, neo_load, now, locals, origin, requested, service>>

\* collect_and_store: set_running(db, True), current_date = start_date,
\* req_counter = 1 and the first test of the while condition
BeginRun(p) ==
    /\ pc[p] = "set_running"
    /\ \E outcome \in StoreOutcomes :
        /\ faults' = Fault(outcome)
        /\ did' = [did EXCEPT ![p] = @ \cup {"begin"}]
        /\ failed' = IF outcome = "ok" THEN failed
                     ELSE [failed EXCEPT ![p] = @ \cup {"begin"}]
        /\ IF outcome = "connect_error"
           THEN /\ Raise(p, "set_running", "DatabaseError")
                /\ UNCHANGED <<neo_load, current_date, req_counter>>
           ELSE /\ neo_load' = set_running(neo_load, TRUE, now, outcome)
                /\ current_date' = [current_date EXCEPT ![p] = start_date]
                /\ req_counter' = [req_counter EXCEPT ![p] = 1]
                /\ Loop(p, start_date)
    /\ UNCHANGED <<pure, neo_exists, neo, now, end_date, check_running_res,
                   values_list, origin, requested, service>>

\* the loop body up to the insert: make_request(url), and on a good answer
\* get_values_list; on another status the error is logged, req_counter is
\* incremented and the while condition is tested again with the same
\* current_date
Request(p) ==
    /\ pc[p] = "request"
    /\ \E reply \in FeedReplies(current_date[p], faults < MaxFaults) :
       \E res \in {make_request(reply)} :
        /\ faults' = IF reply.fault THEN faults + 1 ELSE faults
        /\ did' = [did EXCEPT ![p] = (@ \ {"sleep"}) \cup {"fetch"}]
        /\ requested' = [requested EXCEPT ![p] = Record(@, current_date[p])]
        /\ IF res.raised # "none"
           THEN /\ Raise(p, "make_request", res.raised)
                /\ failed' = [failed EXCEPT ![p] = @ \cup {"fetch"}]
                /\ UNCHANGED <<values_list, req_counter>>
           ELSE IF res.good
           THEN \E v \in {get_values_list(res.response, end_date[p])} :
                IF v.raised # "none"
                THEN /\ Raise(p, "get_values_list", v.raised)
                     /\ failed' = [failed EXCEPT ![p] = @ \cup {"record"}]
                     /\ UNCHANGED <<values_list, req_counter>>
                ELSE /\ values_list' = [values_list EXCEPT ![p] = v.values]
                     /\ Goto(p, "insert")
                     /\ UNCHANGED <<failed, req_counter>>
           ELSE /\ failed' = [failed EXCEPT ![p] = @ \cup {"fetch"}]
                /\ req_counter' = [req_counter EXCEPT ![p] = Bump(@)]
                /\ Loop(p, current_date[p])
                /\ UNCHANGED values_list
    /\ UNCHANGED <<pure, store, now, end_date, check_running_res, current_date,
                   origin, service>>

\* the rest of the loop body after a good answer: insert_into_db(values_list,
\* db) (executemany fails when the table is missing; the error is logged
\* inside insert_into_db), the new current_date, time.sleep(5),
\* req_counter += 1 and the while condition
Insert(p) ==
    /\ pc[p] = "insert"
    /\ \E outcome \in StoreOutcomes :
        /\ faults' = Fault(outcome)
        /\ IF outcome = "ok" /\ (neo_exists \/ values_list[p] = <<>>)
           THEN /\ neo' = neo \o [i \in 1..Len(values_list[p]) |->
                            [neo_reference_id |-> values_list[p][i].neo_reference_id,
                             date_key |-> values_list[p][i].date_key,
                             by |-> p]]
                /\ failed' = failed
           ELSE /\ neo' = neo
                /\ failed' = [failed EXCEPT ![p] = @ \cup {"insert"}]
        /\ IF outcome = "connect_error"
           THEN /\ Raise(p, "insert_into_db", "DatabaseError")
                /\ did' = [did EXCEPT ![p] = @ \cup {"insert"}]
                /\ UNCHANGED <<current_date, now, req_counter>>
           ELSE \E new_current \in {next_window(current_date[p])} :
                /\ current_date' = [current_date EXCEPT ![p] = new_current]
                /\ now' = now + SleepSeconds
                /\ did' = [did EXCEPT ![p] = @ \cup {"insert", "sleep"}]
                /\ req_counter' = [req_counter EXCEPT ![p] = Bump(@)]
                /\ Loop(p, new_current)
    /\ UNCHANGED <<pure, neo_load, neo_exists, end_date, check_running_res,
                   values_list, origin, requested, service>>

\* set_running(db, False) after the loop, and the end of main
EndRun(p) ==
    /\ pc[p] = "end"
    /\ \E outcome \in StoreOutcomes :
        /\ faults' = Fault(outcome)
        /\ did' = [did EXCEPT ![p] = @ \cup {"end"}]
        /\ failed' = IF outcome = "ok" THEN failed
                     ELSE [failed EXCEPT ![p] = @ \cup {"end"}]
        /\ IF outcome = "connect_error"
           THEN Raise(p, "set_running", "DatabaseError") /\ neo_load' = neo_load
           ELSE /\ neo_load' = set_running(neo_load, FALSE, now, outcome)
                /\ SysExit(p, "done")
    /\ UNCHANGED <<pure, neo_exists, neo, now, locals, origin, requested, service>>

(***************************************************************************)
(* app.py: the POST /collect handler.                                      *)
(***************************************************************************)
\* requests are served in order
NextRequest(h) == status[h] = 0 /\ \A g \in Requests : g < h => status[g] # 0

\* collect(): the answer for a result of check_running(): 400 when the load
\* is running, else 200 (with the Popen); 500 when check_running raised
collect_status(r) ==
    IF r.raised # "none" THEN 500 ELSE IF r.running THEN 400 ELSE 200

\* collect(): check_running(), then either the 400 answer or
\* subprocess.Popen(["python", "neo.py", "-end_date", end_date]) and the 200
\* answer; an exception out of check_running is answered 500 by the framework
collect(h, form) ==
    /\ NextRequest(h)
    /\ \E outcome \in StoreOutcomes :
       \E r \in {app_check_running(neo_load, outcome)} :
        /\ faults' = Fault(outcome)
        /\ h_res' = [h_res EXCEPT ![h] = r]
        /\ status' = [status EXCEPT ![h] = collect_status(r)]
        /\ IF collect_status(r) = 200
           THEN /\ HasFreeProc
                /\ pc' = [pc EXCEPT ![FreeProc] = "main"]
                /\ end_date' = [end_date EXCEPT ![FreeProc] = form]
                /\ origin' = [origin EXCEPT ![FreeProc] = h]
           ELSE UNCHANGED <<pc, end_date, origin>>
    /\ UNCHANGED <<pure, store, now, check_running_res, current_date, req_counter,
                   values_list, exc, exit_code, hist>>

(***************************************************************************)
(* Specifications.                                                         *)
(***************************************************************************)
\* the steps of one neo.py process
ProcStep(p) ==
    \/ Main(p)
    \/ empty_table(p)
    \/ BeginRun(p)
    \/ Request(p)
    \/ Insert(p)
    \/ EndRun(p)

Next ==
    \/ \E arg \in ArgValues : CliStart(arg)
    \/ \E h \in Requests : \E form \in FormValues : collect(h, form)
    \/ \E p \in Procs : ProcStep(p)

Spec == Init /\ [][Next]_vars

\* runs from the command line, one at a time: the next one is started when
\* every earlier one has ended
RunStart(arg) ==
    /\ \A q \in Procs : pc[q] \in Finished \cup {"idle"}
    /\ CliStart(arg)

RunNext ==
    \/ \E arg \in RunArgValues : RunStart(arg)
    \/ \E p \in Procs : ProcStep(p)

RunSpec == Init /\ [][RunNext]_vars

\* a started process is scheduled until it ends
FairRunSpec == RunSpec /\ \A p \in Procs : WF_vars(ProcStep(p))

(***************************************************************************)
(* The pure functions called on their own.                                 *)
(***************************************************************************)
\* strings handed to check_date_format: the start date, the start date with
\* one character replaced, cut short, or with a character before or after it
FormatStrings ==
    {start_date, BadFormat, BadCalendar}
    \cup {[start_date EXCEPT ![i] = c] : i \in 1..10, c \in {"x", "-", "0"}}
    \cup {SubSeq(start_date, 1, n) : n \in 0..9}
    \cup {start_date \o <<c>> : c \in {"x", "0", " "}}
    \cup {<<c>> \o start_date : c \in {"x", "0"}}

\* calls of get_values_list: the payload of FeedDays days from start, whose
\* defect-th date holds an entry without a field (0: none), and an end date
MapperCalls ==
    [fn : {"get_values_list"},
     start : StartOrd..(StartOrd + MaxStartOffset),
     defect : {0, 1, FeedDays},
     bound : (StartOrd - 1)..(StartOrd + MaxEndOffset)]

\* calls of set_running(db, True) at instant t followed by check_running(db):
\* the neo_load row before the call, not younger than t, and what the UPDATE
\* does
LockCalls ==
    {c \in [fn : {"set_running"},
            row : [running : {0, 1}, start_dt : 0..MaxTime, end_dt : 0..MaxTime],
            t : 0..MaxTime,
            outcome : {"ok", "exec_error"}] :
        c.row.start_dt <= c.t /\ c.row.end_dt <= c.t}

PureCalls ==
    [fn : {"check_date_format"}, date : FormatStrings] \cup MapperCalls
        \cup LockCalls

PureInit ==
    /\ Idle
    /\ call \in PureCalls
    /\ result = NoCall

apply_check_date_format ==
    /\ call.fn = "check_date_format"
    /\ result = NoCall
    /\ result' = [fn |-> call.fn, value |-> check_date_format(call.date)]
    /\ UNCHANGED <<store, now, faults, pc, locals, exc, exit_code, origin, hist,
                   service, call>>

apply_get_values_list ==
    /\ call.fn = "get_values_list"
    /\ result = NoCall
    /\ \E v \in {get_values_list(FeedBody(call.start, call.defect),
                                  strftime(call.bound))} :
        result' = [fn |-> call.fn, value |-> v]
    /\ UNCHANGED <<store, now, faults, pc, locals, exc, exit_code, origin, hist,
                   service, call>>

\* set_running(db, True) and then check_running(db), nothing in between
apply_set_running ==
    /\ call.fn = "set_running"
    /\ result = NoCall
    /\ \E row \in {set_running(call.row, TRUE, call.t, call.outcome)} :
        result' = [fn |-> call.fn, value |-> check_running(row, "ok")]
    /\ UNCHANGED <<store, now, faults, pc, locals, exc, exit_code, origin, hist,
                   service, call>>

PureNext ==
    \/ apply_check_date_format
    \/ apply_get_values_list
    \/ apply_set_running

PureSpec == PureInit /\ [][PureNext]_vars

(***************************************************************************)
(* Properties.                                                             *)
(***************************************************************************)
\* between begin() and end(): set_running(db, True) has returned and
\* set_running(db, False) has not been called
InRun(p) == pc[p] \in {"request", "insert", "end"}

\* the process performs its lock check in this step
LockCheck(p) == pc[p] = "main" /\ pc'[p] # "main" /\ check_args(end_date[p])

\* request h is served in this step
Served(h) == status[h] = 0 /\ status'[h] # 0

\* C1 as claimed: in every reachable state at most one run is between its
\* begin() and its end().
C1_SingleFlight ==
    \A p, q \in Procs : (InRun(p) /\ InRun(q)) => p = q

\* C1 as amended: a run that performs its lock check while the persisted
\* RunState reads running = true does not enter collect_and_store (it ends in
\* that step, rejected or by the exception of a failed read), so two runs are
\* between begin() and end() at once only if each performed its lock check
\* while the persisted flag read running = false.
C1_NoStartWhileFlagSet ==
    [][\A p \in Procs :
          (LockCheck(p) /\ neo_load.running = 1)
              => (pc'[p] \in {"rejected", "crashed"} /\ did'[p] = {})]_vars

\* C1 witness: a run was rejected while another run is between begin() and end().
C1_Witness ==
    \E p, q \in Procs : p # q /\ pc[q] = "rejected" /\ InRun(p) /\ neo_load.running = 1

\* C2 as claimed: a run that has called begin() and was stopped by an error of
\* a window iteration (transport failure, non-JSON body, missing field) has
\* executed end(), and RunState does not read running = true.
C2_LockReleased ==
    \A p \in Procs :
        (pc[p] = "crashed" /\ "begin" \in did[p]
            /\ exc[p].at \in {"make_request", "get_values_list"})
        => ("end" \in did[p] /\ neo_load.running = 0)

\* C3 as claimed: a request that the feed answers with another status than
\* 200 advances the window start by 8 days as a good one does, and no window
\* start date is requested twice in a run.
C3_FailureAdvances ==
    /\ [][\A p \in Procs :
             (pc[p] = "request" /\ pc'[p] \in {"request", "end"})
                 => current_date'[p] = next_window(current_date[p])]_vars
    /\ [](\A p \in Procs : \A i, j \in 1..Len(requested[p]) :
             requested[p][i] = requested[p][j] => i = j)

\* C4 as claimed: whatever the feed answers, success or failure, a run that
\* has entered the window loop leaves it after finitely many requests (and
\* then completes, unless an exception ends it).
C4_LoopTerminates ==
    \A p \in Procs : (pc[p] = "request") ~> (pc[p] \in {"end", "done", "crashed"})

\* the run that request g launched
Launched(g, p) == status[g] = 200 /\ origin[p] = g /\ pc[p] # "idle"

\* C5 as claimed: while the run launched by an accepted POST /collect has not
\* finished, a later POST /collect is answered 400 and starts no process.
C5_BackToBack ==
    [][\A h \in Requests :
          (Served(h) /\ \E g \in Requests, p \in Procs :
                            Launched(g, p) /\ pc[p] \notin Finished)
              => (status'[h] = 400 /\ pc' = pc)]_vars

\* C5 as amended: while the run launched by an accepted POST /collect is
\* between its begin() and its end() and the persisted RunState reads
\* running = true, a later POST /collect starts no process; it is answered
\* 400, or 500 when its own read of RunState fails.
C5_BackToBackAfterBegin ==
    [][\A h \in Requests :
          (Served(h) /\ neo_load.running = 1
                /\ \E g \in Requests, p \in Procs : Launched(g, p) /\ InRun(p))
              => /\ pc' = pc
                 /\ status'[h] = IF h_res'[h].raised = "none" THEN 400 ELSE 500]_vars

\* C5 witness: the second POST was answered 400 while the run launched by the
\* first is between begin() and end().
C5_Witness ==
    \E g, h \in Requests, p \in Procs :
        g # h /\ Launched(g, p) /\ InRun(p) /\ status[h] = 400

\* C6: a POST /collect that reads running = true is answered 400, starts no
\* process and leaves the store as it was; one that reads running = false
\* starts exactly one process, which has not run yet when 200 is answered.
C6_CollectDecision ==
    [][\A h \in Requests :
          Served(h) =>
              /\ store' = store
              /\ (h_res'[h].raised = "none" /\ h_res'[h].running)
                    => (status'[h] = 400 /\ pc' = pc)
              /\ (h_res'[h].raised = "none" /\ ~h_res'[h].running)
                    => /\ status'[h] = 200
                       /\ \E p \in Procs :
                            /\ pc[p] = "idle" /\ pc'[p] = "main" /\ origin'[p] = h
                            /\ \A q \in Procs \ {p} : pc'[q] = pc[q]]_vars

\* C6 witness: one POST was answered 200 and launched a run, another 400.
C6_Witness ==
    \E g, h \in Requests, p \in Procs :
        Launched(g, p) /\ status[h] = 400 /\ h_res[h].running

\* C7: a run whose lock check finds running = true stops as rejected in that
\* step, with the RunState row and the table as they were, and it never calls
\* begin(), the reset, a fetch or an insert.
C7_RejectedChangesNothing ==
    [][\A p \in Procs :
          /\ (LockCheck(p) /\ check_running_res'[p].raised = "none"
                  /\ check_running_res'[p].running)
                => (pc'[p] = "rejected" /\ store' = store)
          /\ pc[p] = "rejected"
                => (pc'[p] = "rejected" /\ did'[p] = {} /\ requested'[p] = <<>>)]_vars

\* C7 witness: a run stopped as rejected.
C7_Witness ==
    \E p \in Procs : pc[p] = "rejected" /\ check_running_res[p].running

\* C8 as claimed: no failure of a window (fetch, insert) or of a record (an
\* entry that cannot be mapped) ends the run.
C8_FailureContained ==
    \A p \in Procs :
        pc[p] = "crashed"
            => exc[p].at \notin {"make_request", "get_values_list", "insert_into_db"}

\* C9 as claimed: after a failed table reset the run performs no fetch and no
\* insert.
C9_ResetFailureFatal ==
    \A p \in Procs :
        "reset" \in failed[p]
            => (pc[p] \notin {"request", "insert"} /\ did[p] \cap {"fetch", "insert"} = {})

\* C10 as claimed: when begin() could not persist running = true, the run is
\* not in its window loop while the persisted RunState reads running = false.
C10_BeginFailureFatal ==
    \A p \in Procs :
        ("begin" \in failed[p] /\ neo_load.running = 0)
            => pc[p] \notin {"request", "insert"}

\* C11: a check_running whose read of the neo_load row fails (the connect
\* fails, the query fails or finds no row) returns no result: it raises.  In
\* neo.py the process ends there with status 1, having started no run; in
\* app.py the request is answered 500 and no process is spawned.  The store is
\* as it was in either case.
C11_ReadFailureReported ==
    [][/\ \A p \in Procs :
            (LockCheck(p) /\ faults' # faults)
                => /\ check_running_res'[p].raised # "none"
                   /\ pc'[p] = "crashed" /\ exit_code'[p] = 1
                   /\ store' = store
       /\ \A p \in Procs :
            (pc[p] = "crashed" /\ exc[p].at = "check_running")
                => (pc'[p] = "crashed" /\ did'[p] = {} /\ requested'[p] = <<>>)
       /\ \A h \in Requests :
            (Served(h) /\ faults' # faults)
                => /\ h_res'[h].raised # "none"
                   /\ status'[h] = 500
                   /\ pc' = pc
                   /\ store' = store]_vars

\* C11 witness: a process ended in check_running because its query failed.
C11_Witness ==
    \E p \in Procs :
        /\ pc[p] = "crashed" /\ exc[p].at = "check_running"
        /\ check_running_res[p].raised = "AttributeError"

\* process q is the run started last
LastRun(q) == pc[q] # "idle" /\ \A r \in Procs : r > q => pc[r] = "idle"

\* C12 as claimed: when two full runs were executed one after the other, the
\* table after the second holds only rows inserted by the second.
C12_ResetIdempotent ==
    \A q \in Procs :
        (LastRun(q) /\ pc[q] = "done" /\ \E p \in Procs : p < q /\ pc[p] = "done")
            => \A i \in 1..Len(neo) : neo[i].by = q

\* C13 as claimed: a run whose end date is the start date 1982-12-10 issues
\* exactly one fetch request, and when it has ended the persisted flag is
\* back at false and the rows it inserted come from date keys on or before
\* 1982-12-10.
C13_SingleDayRun ==
    \A p \in Procs :
        end_date[p] = start_date
            => /\ Len(requested[p]) <= 1
               /\ pc[p] = "done"
                    => /\ Len(requested[p]) = 1
                       /\ neo_load.running = 0
                       /\ \A i \in 1..Len(neo) :
                            neo[i].by = p
                                => fromisoformat(neo[i].date_key).ord <= StartOrd

\* the rows of the entries of the payload of FeedDays days from ordinal s that
\* lie under a date on or before ordinal b, in payload order
ExpectedRows(s, b) ==
    Flatten([k \in 1..FeedDays |->
                IF s + k - 1 <= b
                THEN [i \in 1..Len(FeedEntries(s + k - 1)) |->
                        [neo_reference_id |-> Last4(NeoId(s + k - 1, i)),
                         date_key |-> strftime(s + k - 1)]]
                ELSE <<>>])

\* C14: for a payload whose entries under the dates on or before the end date
\* have every field, get_values_list returns one row per entry under a date
\* on or before the end date (the end date itself included), none for an
\* entry under a later date, in payload order.
C14_MapperBound ==
    (result.fn = "get_values_list"
        /\ ~(call.defect >= 1 /\ call.start + call.defect - 1 <= call.bound))
    => /\ result.value.raised = "none"
       /\ result.value.values = ExpectedRows(call.start, call.bound)

\* C14 witness: the payload holds the end date and later dates; the entries
\* of the end date are in the rows.
C14_Witness ==
    /\ result.fn = "get_values_list"
    /\ call.start <= call.bound
    /\ call.bound < call.start + FeedDays - 1
    /\ \E i \in 1..Len(result.value.values) :
          result.value.values[i].date_key = strftime(call.bound)

\* d is exactly 4 digits, a dash, 2 digits, a dash, 2 digits
ExactFormat(d) ==
    /\ Len(d) = 10
    /\ \A i \in {1, 2, 3, 4, 6, 7, 9, 10} : IsDigit(d[i])
    /\ d[5] = "-"
    /\ d[8] = "-"

\* C15 as claimed: check_date_format(d) is true if and only if d is exactly
\* DDDD-DD-DD, with nothing before or after.
C15_FormatExact ==
    result.fn = "check_date_format" => (result.value <=> ExactFormat(call.date))

\* C16 as claimed: a run whose end date is missing or fails the format check
\* ends with a non-zero exit status, having read and written nothing in the
\* store.
C16_InputRejected ==
    \A p \in Procs :
        (pc[p] \notin {"idle", "main"} /\ ~check_args(end_date[p]))
            => /\ pc[p] = "exited"
               /\ exit_code[p] # 0
               /\ check_running_res[p].raised = "unset"
               /\ did[p] = {}

\* C17 as claimed: check_running right after set_running(db, True) called at
\* instant t returns running = true and start_dt = t, and the start time does
\* not go back.
C17_ReadAfterWrite ==
    result.fn = "set_running"
        => /\ result.value.raised = "none"
           /\ result.value.running
           /\ result.value.start_dt = call.t
           /\ result.value.start_dt >= call.row.start_dt

\* C18 as claimed: a run resets the table after its begin(), and every reset
\* and every insert happens while the persisted flag reads running = true.
C18_LockBeforeTable ==
    [][\A p \in Procs :
          /\ (pc[p] = "empty_table" /\ "reset" \in did'[p])
                => ("begin" \in did[p] /\ neo_load.running = 1)
          /\ (pc[p] = "insert" /\ "insert" \in did'[p] /\ neo' # neo)
                => neo_load.running = 1]_vars

\* process p issues a feed request in this step
Requests_feed(p) ==
    pc[p] = "request" /\ (pc'[p] # "request" \/ req_counter'[p] # req_counter[p])

\* C19 as claimed: a run that has issued a request has slept since then when
\* it issues its next request, whatever the earlier request came back with.
C19_Pacing ==
    [][\A p \in Procs :
          (Requests_feed(p) /\ "fetch" \in did[p]) => "sleep" \in did[p]]_vars

\* the window starts S, S + 8, S + 16, ... on or before ordinal e
ExpectedWindows(e) ==
    [k \in 1..(((e - StartOrd) \div WindowDays) + 1) |->
        strftime(StartOrd + (k - 1) * WindowDays)]

\* the rows of the feed's entries of every date from S to ordinal e, in order
RangeRows(e) ==
    Flatten([j \in 1..(e - StartOrd + 1) |->
                [i \in 1..Len(FeedEntries(StartOrd + j - 1)) |->
                    [neo_reference_id |-> Last4(NeoId(StartOrd + j - 1, i)),
                     date_key |-> strftime(StartOrd + j - 1)]]])

\* the rows process p inserted, as they are in the table
InsertedBy(p) ==
    LET mine == SelectSeq(neo, LAMBDA r : r.by = p)
    IN  [i \in 1..Len(mine) |->
            [neo_reference_id |-> mine[i].neo_reference_id,
             date_key |-> mine[i].date_key]]

\* the run of p is over, every request of it was answered 200 and every
\* insert of it succeeded
CleanRun(p) ==
    /\ LastRun(p) /\ pc[p] = "done"
    /\ failed[p] \cap {"fetch", "insert"} = {}

\* C20: a run from S to E all of whose fetches and inserts succeeded has
\* requested exactly the window starts S, S + 8, ... <= E, in increasing
\* order, and the rows it inserted are the entries of every date from S to E,
\* each once, and of no other date.
C20_WindowsPartition ==
    \A p \in Procs :
        CleanRun(p)
            => /\ requested[p] = ExpectedWindows(fromisoformat(end_date[p]).ord)
               /\ req_counter[p] = Len(requested[p]) + 1
               /\ InsertedBy(p) = RangeRows(fromisoformat(end_date[p]).ord)

\* C20 witness: a run over two windows has ended, all fetches and inserts
\* having succeeded, with rows in the table.
C20_Witness ==
    \E p \in Procs :
        CleanRun(p) /\ Len(requested[p]) = 2 /\ Len(InsertedBy(p)) > FeedDays

=============================================================================
